---- MODULE Spec2Model ----
(***************************************************************************)
(* NoGo solver of Go-For-Dummies/Assignment2: the GTP connection's solve   *)
(* command, the recursive negamax search with its transposition table,     *)
(* symmetry lookup, illegal-move blacklists and heuristic probes.          *)
(*                                                                         *)
(* The board (simple_board), board_util, the heuristic and the 2D hashing  *)
(* helpers (TTUtil.symmetries, code_2d) are not part of the sources at     *)
(* hand; they are modelled from the written specification (sections 4.1 to *)
(* 4.5).  negamax, solve, play_cmd, clear_board_cmd and the transposition  *)
(* table's code / lookup / store are modelled from their code.             *)
(***************************************************************************)
EXTENDS Naturals, Sequences, FiniteSets

\* ------------------------------------------------------------------ bounds

\* Board size of the session (boardsize_cmd); 2 is the smallest size the
\* protocol accepts (move_to_coord).
Size == 2

\* Number of top-level solve requests of one session.
MaxRequests == 2

\* ---------------------------------------------------------------- colours

EMPTY == 0
BLACK == 1
WHITE == 2
BORDER == 3

opponent(color) == WHITE + BLACK - color

\* ------------------------------------------------------------------ board
\* The board is a flat array with border sentinels; NS is the row stride
\* (point_to_coord: NS = boardsize + 1).

NS == Size + 1

pt(row, col) == row * NS + col

Points == { pt(r, c) : r \in 1..Size, c \in 1..Size }

\* A position: the colour of every point and the player to move.
Boards == [stones : [Points -> {EMPTY, BLACK, WHITE}], player : {BLACK, WHITE}]

get_color(board, point) ==
  IF point \in Points THEN board.stones[point] ELSE BORDER

neighbors(point) == {point - 1, point + 1, point - NS, point + NS}

get_empty_points(board) == { p \in Points : board.stones[p] = EMPTY }

\* reset: an empty board, black to move.
reset_board == [stones |-> [p \in Points |-> EMPTY], player |-> BLACK]

\* copy: a deep, independent copy holds the same stones and player.
copy_board(board) == [stones |-> board.stones, player |-> board.player]

\* The stone is put on the board without a legality test; the turn passes.
fast_play_move(board, point, color) ==
  [stones |-> [board.stones EXCEPT ![point] = color], player |-> opponent(color)]

\* undo: exact inverse of a play of color at point.
undo_move(board, point, color) ==
  [stones |-> [board.stones EXCEPT ![point] = EMPTY], player |-> color]

\* The connected block of the stone at point: grown from the seed until
\* no neighbour of the same colour is left out.
RECURSIVE grow_block(_, _, _)
grow_block(board, color, block) ==
  LET more == { q \in Points \ block :
                  /\ board.stones[q] = color
                  /\ \E p \in block : q \in neighbors(p) }
  IN IF more = {} THEN block ELSE grow_block(board, color, block \cup more)

block_of(board, point) == grow_block(board, board.stones[point], {point})

has_liberty(board, block) ==
  \E p \in block : \E q \in neighbors(p) : get_color(board, q) = EMPTY

\* legal(cell, color): the cell is empty and the stone's connected group
\* keeps at least one liberty after the placement.
is_legal(board, point, color) ==
  /\ point \in Points
  /\ board.stones[point] = EMPTY
  /\ LET after == fast_play_move(board, point, color)
     IN has_liberty(after, block_of(after, point))

\* play: applies a legal move; an illegal one leaves the board as it was
\* (the caller sees the illegality signal through is_legal).
play_move(board, point, color) ==
  IF is_legal(board, point, color) THEN fast_play_move(board, point, color) ELSE board

legal_moves(board, color) == { p \in Points : is_legal(board, p, color) }

\* ------------------------------------------------------------- sequences

Min(S) == CHOOSE x \in S : \A y \in S : x <= y

\* ---------------------------------------------------------------- hashing

\* Bitwise exclusive or of two naturals (Python's ^ on non-negative ints).
RECURSIVE Xor(_, _)
Xor(a, b) ==
  IF a = 0 THEN b
  ELSE IF b = 0 THEN a
  ELSE ((((a % 2) + (b % 2)) % 2) + (2 * Xor(a \div 2, b \div 2)))

RECURSIVE Pow(_, _)
Pow(b, e) == IF e = 0 THEN 1 ELSE b * Pow(b, e - 1)

MAX_ZOBRIST_RANDOM == 1073741823

\* Row and column indices of the zobrist table and of a 2D board.
Idx == 0..(Size - 1)

\* The per-cell constants are drawn at random when a table is built
\* (random.randint(0, MAX_ZOBRIST_RANDOM)).  Two draws are followed: one in
\* which every cell and colour owns its own bits, and one in which a white
\* stone on a cell hashes like a black stone on the next cell.
ZobristSpread == [ij \in Idx \X Idx |-> Pow(4, ij[1] * Size + ij[2])]
ZobristDense == [ij \in Idx \X Idx |-> Pow(2, ij[1] * Size + ij[2])]

ZobristTables ==
  { z \in {ZobristSpread, ZobristDense} :
      \A ij \in Idx \X Idx : z[ij] <= MAX_ZOBRIST_RANDOM }

\* c = c ^ (zobrist_table[i, j] * color), over the cells in `todo`.
RECURSIVE code_over(_, _, _, _)
code_over(zobrist, colorAt, todo, c) ==
  IF todo = {} THEN c
  ELSE LET ij == CHOOSE x \in todo : TRUE
           color == colorAt[ij]
       IN code_over(zobrist, colorAt, todo \ {ij},
                    IF color # EMPTY /\ color # BORDER
                    THEN Xor(c, zobrist[ij] * color) ELSE c)

\* A fingerprint that also folds in whose turn it is.
code_with_turn(zobrist, board) ==
  Xor(code_over(zobrist,
                [ij \in Idx \X Idx |-> get_color(board, pt(ij[1] + 1, ij[2] + 1))],
                Idx \X Idx, 0),
      board.player * MAX_ZOBRIST_RANDOM)

\* TranspositionTable.code: the fingerprint of a board.
code(zobrist, board) ==
  code_over(zobrist,
            [ij \in Idx \X Idx |-> get_color(board, pt(ij[1] + 1, ij[2] + 1))],
            Idx \X Idx, 0)

\* GoBoardUtil.get_twoD_board: the 2D colour grid of a board.
get_twoD_board(board) ==
  [ij \in Idx \X Idx |-> get_color(board, pt(ij[1] + 1, ij[2] + 1))]

\* code_2d: the same fingerprint, computed from a 2D colour grid.
code_2d(zobrist, grid) == code_over(zobrist, grid, Idx \X Idx, 0)

\* ------------------------------------------------------------- symmetries

\* Where cell <<i, j>> of the k-th transform comes from in the original
\* grid: k = 1..4 are the rotations by 0, 90, 180 and 270 degrees, k = 5..8
\* the same four after a mirror flip.
rot_source(k, ij) ==
  LET i == ij[1]
      j == ij[2]
      n == Size - 1
  IN CASE k = 1 -> <<i, j>>
       [] k = 2 -> <<j, n - i>>
       [] k = 3 -> <<n - i, n - j>>
       [] k = 4 -> <<n - j, i>>

sym_source(k, ij) ==
  IF k <= 4 THEN rot_source(k, ij)
  ELSE LET r == rot_source(k - 4, ij) IN <<r[1], (Size - 1) - r[2]>>

transform(k, grid) == [ij \in Idx \X Idx |-> grid[sym_source(k, ij)]]

\* TTUtil.symmetries: the 8 dihedral transforms of a grid.
symmetries(grid) == [k \in 1..8 |-> transform(k, grid)]

\* ------------------------------------------------------ transposition table

\* Python's None; a table entry is a pair <<isWin, move>>, move 0 for none.
None == <<>>

Entries == {<<FALSE, 0>>} \cup { <<TRUE, m>> : m \in Points }

\* TranspositionTable.lookup
lookup(table, c) == IF c \in DOMAIN table THEN table[c] ELSE None

\* TranspositionTable.store: self.table[code] = data, and no return
\* statement: the call evaluates to None.
store(table, c, data) ==
  [table  |-> [k \in DOMAIN table \cup {c} |-> IF k = c THEN data ELSE table[k]],
   result |-> None]

\* The first hit among the fingerprints of the 8 transforms, None if none
\* hits (negamax, the SymmetryCheck loop).
RECURSIVE sym_lookup(_, _, _, _)
sym_lookup(table, zobrist, syms, k) ==
  IF k > 8 THEN None
  ELSE LET hit == lookup(table, code_2d(zobrist, syms[k]))
       IN IF hit # None THEN hit ELSE sym_lookup(table, zobrist, syms, k + 1)

\* ------------------------------------------------- reference game value

\* The player to move has a forced win: some legal move leads to a
\* position the opponent cannot win; a player without a legal move loses.
\* Plain minimax: no table, no symmetry, no blacklist, no ordering.
RECURSIVE ForcedWin(_)
ForcedWin(board) ==
  \E m \in legal_moves(board, board.player) :
     ~ForcedWin(fast_play_move(board, m, board.player))

\* ------------------------------------------------------------------ state

VARIABLES
  live,         \* the connection's board (self.board)
  board_copy,   \* the board the search plays on (solve's board_copy)
  tt,           \* the transposition table's dict: code -> entry
  zobrist,      \* the table's per-cell constants
  bbl_default,  \* negamax's default argument bbl = [] (one list per process)
  wbl_default,  \* negamax's default argument wbl = []
  stack,        \* the active negamax calls, the root first
  pc,           \* "idle", "run", "ret" (a call just returned), "done", "crashed"
  ret,          \* the value the last negamax call returned
  retFrame,     \* the call that returned last (its locals at the return)
  response,     \* what the last request answered
  requests,     \* solve requests started so far
  before,       \* the connection's board when the running request began
  stored_for,   \* code -> the position whose search stored the entry
  solved,       \* the solve requests that ran to their end: position, outcome
  request,      \* the running or last request: command, colour, negamax's mode
  alarm         \* the SIGALRM timer: "off", "armed", "fired"

vars == <<live, board_copy, tt, zobrist, bbl_default, wbl_default, stack, pc,
          ret, retFrame, response, requests, before, stored_for, solved,
          request, alarm>>

\* negamax's defaults (HeuristicMode = True, SymmetryCheck = True); no
\* caller passes another value.
HeuristicMode == TRUE
SymmetryCheck == TRUE

Respond(kind, winner, move) == [kind |-> kind, winner |-> winner, move |-> move]

\* A request: the command, the colour it names (solve: the player to
\* move), the HeuristicMode negamax runs with, whether a search was started.
Request(cmd, color, heuristic, searched) ==
  [cmd |-> cmd, color |-> color, heuristic |-> heuristic, searched |-> searched]

NoRequest == Request("none", BLACK, HeuristicMode, FALSE)

\* current_color = board.current_player: the colour a call searches for.
current_player_black(board) == BLACK
current_player(board) == board.player

\* The locals of one negamax call.  entry is the board as the call found
\* it; rejected are the candidates whose play raised ValueError in it.
NewFrame(board, bbl, wbl) ==
  [phase |-> "enter", state_code |-> 0, current_color |-> current_player(board),
   probe |-> {}, probing |-> 0, todo |-> {}, move |-> 0,
   bbl |-> bbl, wbl |-> wbl, entry |-> board, rejected |-> {}, probed |-> {},
   via |-> "call"]

Top == stack[Len(stack)]
SetTop(f) == [stack EXCEPT ![Len(stack)] = f]
Pop == SubSeq(stack, 1, Len(stack) - 1)

Init ==
  /\ live = reset_board
  /\ board_copy = reset_board
  /\ tt = <<>>
  /\ zobrist = ZobristSpread
  /\ bbl_default = {}
  /\ wbl_default = {}
  /\ stack = <<>>
  /\ pc = "idle"
  /\ ret = None
  /\ retFrame = NewFrame(reset_board, {}, {})
  /\ response = Respond("none", 0, 0)
  /\ requests = 0
  /\ before = reset_board
  /\ stored_for = <<>>
  /\ solved = {}
  /\ request = NoRequest
  /\ alarm = "off"

\* ------------------------------------------------------- protocol commands

\* When a command handler has ended, the locals of the last solve (its
\* board copy, its table, negamax's return value) no longer exist.
LocalsGone ==
  /\ board_copy' = reset_board
  /\ tt' = <<>>
  /\ zobrist' = ZobristSpread
  /\ stored_for' = <<>>
  /\ ret' = None
  /\ retFrame' = NewFrame(reset_board, {}, {})
  /\ before' = reset_board
  /\ response' = Respond("none", 0, 0)
  /\ request' = NoRequest
  /\ alarm' = "off"

\* play_cmd: play a stone of either colour on the connection's board; an
\* illegal move is answered as such and changes nothing.
PlayCmd(point, color) ==
  /\ pc \in {"idle", "done"}
  /\ live' = play_move(live, point, color)
  /\ pc' = "idle"
  /\ LocalsGone
  /\ UNCHANGED <<bbl_default, wbl_default, stack, requests, solved>>

\* clear_board_cmd: reset the connection's board.
ClearBoard ==
  /\ pc \in {"idle", "done"}
  /\ live' = reset_board
  /\ pc' = "idle"
  /\ LocalsGone
  /\ UNCHANGED <<bbl_default, wbl_default, stack, requests, solved>>

\* The board the connection holds while the search mutates its own board:
\* solve searches board_copy = self.board.copy(), never self.board.
LiveAliased(liveBoard, searchBoard) == searchBoard
LiveDuringSearch(liveBoard, searchBoard) == liveBoard

\* tt = TranspositionTable(self.board.size): each request builds its own
\* table; whatever table an earlier request had is dropped.
kept_table(old) == old
fresh_table(old) == <<>>

\* solve, up to the call of negamax: arm the alarm, build a fresh table
\* with fresh constants, copy the board, call negamax with its defaults.
SolveWith(heuristic) ==
  /\ pc \in {"idle", "done"}
  /\ requests < MaxRequests
  /\ requests' = requests + 1
  /\ zobrist' \in ZobristTables
  /\ tt' = fresh_table(tt)
  /\ stored_for' = <<>>
  /\ board_copy' = copy_board(live)
  /\ before' = live
  /\ stack' = <<NewFrame(copy_board(live), bbl_default, wbl_default)>>
  /\ pc' = "run"
  /\ ret' = None
  /\ response' = Respond("none", 0, 0)
  /\ request' = Request("solve", live.player, heuristic, TRUE)
  /\ alarm' = "armed"
  /\ UNCHANGED <<live, bbl_default, wbl_default, retFrame, solved>>

\* solve calls negamax(board_copy, tt): HeuristicMode has its default.
SolveStart == SolveWith(HeuristicMode)

\* The same request with negamax(board_copy, tt, HeuristicMode=False).
SolvePlain == SolveWith(FALSE)

\* ---------------------------------------------------------------- negamax

\* One step of the search: everything a step may change.
SearchStep(stack2, board2, tt2, for2, ret2, retFrame2, pc2, bbl2, wbl2, response2) ==
  /\ stack' = stack2
  /\ board_copy' = board2
  /\ live' = LiveDuringSearch(live, board2)
  /\ tt' = tt2
  /\ stored_for' = for2
  /\ ret' = ret2
  /\ retFrame' = retFrame2
  /\ pc' = pc2
  /\ bbl_default' = bbl2
  /\ wbl_default' = wbl2
  /\ response' = response2
  /\ solved' = IF pc2 = "crashed" /\ request.cmd = "solve"
               THEN solved \cup {[position |-> before, outcome |-> response2,
                                   heuristic |-> request.heuristic]}
               ELSE solved
  /\ UNCHANGED <<zobrist, requests, before, request, alarm>>

\* except TimeoutError: the one exception solve and genmove_cmd handle.
catches_nothing(exc) == FALSE
solve_catches(exc) == exc = "TimeoutError"

\* The moves Nogo.get_move may return for color on board: a random legal
\* move; the empty set stands for its None.
get_move(board, color) == legal_moves(board, color)

\* genmove_cmd resigns when get_move finds nothing for the requested colour.
genmove_resigns_mover(board, color) == get_move(board, board.player) = {}
genmove_resigns(board, color) == get_move(board, color) = {}

\* The step that ends a command handler: the active calls are gone, the
\* handler has answered (or died with an uncaught exception).
EndStep(pc2, response2, live2, alarm2) ==
  /\ stack' = <<>>
  /\ pc' = pc2
  /\ response' = response2
  /\ live' = live2
  /\ alarm' = alarm2
  /\ solved' = IF request.cmd = "solve" /\ response2.kind # "unknown"
               THEN solved \cup {[position |-> before, outcome |-> response2,
                                   heuristic |-> request.heuristic]}
               ELSE solved
  /\ UNCHANGED <<board_copy, tt, stored_for, ret, retFrame, bbl_default,
                 wbl_default, zobrist, requests, before, request>>

\* genmove_random: a random legal move of the requested colour is played on
\* the connection's board and answered.
genmove_random(alarm2) ==
  LET color == request.color
  IN IF get_move(live, color) = {}
     THEN EndStep("crashed", Respond("TypeError", 0, 0), live, alarm2)
     ELSE \E move \in get_move(live, color) :
            IF is_legal(live, move, color)
            THEN EndStep("done", Respond("move", 0, move),
                         play_move(live, move, color), alarm2)
            ELSE EndStep("done", Respond("none", 0, 0), live, alarm2)

\* genmove_cmd, up to the call of negamax: resign when the requested colour
\* has no move; otherwise arm the alarm and search a copy of the board with
\* a fresh table.  negamax searches for the board's player to move.
GenmoveStart(color) ==
  /\ pc \in {"idle", "done"}
  /\ requests < MaxRequests
  /\ requests' = requests + 1
  /\ before' = live
  /\ ret' = None
  /\ stored_for' = <<>>
  /\ tt' = fresh_table(tt)
  /\ IF genmove_resigns(live, color)
     THEN /\ pc' = "done"
          /\ response' = Respond("resign", 0, 0)
          /\ request' = Request("genmove", color, HeuristicMode, FALSE)
          /\ alarm' = "off"
          /\ zobrist' = ZobristSpread
          /\ board_copy' = reset_board
          /\ stack' = <<>>
     ELSE /\ pc' = "run"
          /\ response' = Respond("none", 0, 0)
          /\ request' = Request("genmove", color, HeuristicMode, TRUE)
          /\ alarm' = "armed"
          /\ zobrist' \in ZobristTables
          /\ board_copy' = copy_board(live)
          /\ stack' = <<NewFrame(copy_board(live), bbl_default, wbl_default)>>
  /\ UNCHANGED <<live, bbl_default, wbl_default, retFrame, solved>>

\* return value: the call on top of the stack ends and hands value to its
\* caller.
Return(value, f, via, board2, tt2, for2) ==
  SearchStep(Pop, board2, tt2, for2, value, [f EXCEPT !.via = via], "ret",
             bbl_default, wbl_default, response)

\* return tt.store(state_code, data): the entry goes into the table and the
\* call returns what store returned.
ReturnStore(data, f, via, board2) ==
  LET s == store(tt, f.state_code, data)
  IN Return(s.result, f, via, board2, s.table,
            [k \in DOMAIN stored_for \cup {f.state_code} |->
               IF k = f.state_code THEN f.entry ELSE stored_for[k]])

\* The HeuristicMode of the call on top of the stack: the top-level call has
\* the request's; both recursive calls leave the parameter to its default.
heuristic_on == IF Len(stack) = 1 THEN request.heuristic ELSE HeuristicMode

\* empty_points: the empty points without the mover's blacklisted ones.
candidates(board, current_color, bbl, wbl) ==
  get_empty_points(board) \ (IF current_color = BLACK THEN bbl ELSE wbl)

\* The head of negamax: table lookup, symmetric lookup, candidate set, the
\* no-candidate return.
NegamaxEnter ==
  /\ pc = "run"
  /\ Top.phase = "enter"
  /\ LET state_code == code(zobrist, board_copy)
         f == [Top EXCEPT !.state_code = state_code,
                          !.current_color = current_player(board_copy)]
         hit == lookup(tt, state_code)
         symhit == IF SymmetryCheck
                   THEN sym_lookup(tt, zobrist,
                                   symmetries(get_twoD_board(board_copy)), 1)
                   ELSE None
         empty_points == candidates(board_copy, f.current_color, f.bbl, f.wbl)
     IN IF hit # None
        THEN Return(hit, f, "hit", board_copy, tt, stored_for)
        ELSE IF symhit # None
        THEN Return(symhit, f, "symhit", board_copy, tt, stored_for)
        ELSE IF empty_points = {}
        THEN ReturnStore(<<FALSE, 0>>, f, "empty", board_copy)
        ELSE SearchStep(
               SetTop([f EXCEPT !.phase = IF heuristic_on THEN "probe" ELSE "loop",
                                !.probe = IF heuristic_on THEN empty_points ELSE {},
                                !.todo = empty_points]),
               board_copy, tt, stored_for, ret, retFrame, "run",
               bbl_default, wbl_default, response)

\* The board after the heuristic probe's undo (board.undo_move after
\* statisticaly_evaluate).
ProbeUndoSkipped(board, move, color) == board
ProbeUndoBoard(board, move, color) == undo_move(board, move, color)

\* Heuristic ordering, first half of one probe: board.fast_play_move.
ProbePlay ==
  /\ pc = "run"
  /\ Top.phase = "probe"
  /\ Top.probing = 0
  /\ Top.probe # {}
  /\ LET f == Top
         move == Min(f.probe)
     IN SearchStep(SetTop([f EXCEPT !.probing = move]),
                   fast_play_move(board_copy, move, f.current_color),
                   tt, stored_for, ret, retFrame, "run",
                   bbl_default, wbl_default, response)

\* Second half: the position is scored and the probe undone; after the
\* last probe the candidates are sorted by score.
ProbeUndo ==
  /\ pc = "run"
  /\ Top.phase = "probe"
  /\ Top.probing # 0
  /\ LET f == Top
         left == f.probe \ {f.probing}
     IN SearchStep(SetTop([f EXCEPT !.probing = 0,
                                    !.probe = left,
                                    !.probed = @ \cup {f.probing},
                                    !.phase = IF left = {} THEN "loop" ELSE "probe"]),
                   ProbeUndoBoard(board_copy, f.probing, f.current_color),
                   tt, stored_for, ret, retFrame, "run",
                   bbl_default, wbl_default, response)

\* except ValueError: the one exception negamax handles, at the node whose
\* play raised it.
negamax_lets_through(exc) == FALSE
negamax_catches(exc) == exc = "ValueError"

\* for move in ...: the candidates left once move has had its turn.
rest_unmoved(todo, move) == todo
rest(todo, move) == todo \ {move}

\* One turn of the candidate loop.  The heuristic's scores are opaque: any
\* order of the candidates may result from the sort; without the heuristic
\* the candidates are tried in enumeration order.  A legal move is played
\* and negamax called with copies of the blacklists; an illegal one raises
\* ValueError, which puts the move on the mover's blacklist (the list the
\* call was given: at the root, the default-argument list itself).
TryCandidate(move) ==
  /\ pc = "run"
  /\ Top.phase = "loop"
  /\ move \in Top.todo
  /\ heuristic_on \/ move = Min(Top.todo)
  /\ LET f == Top
         color == f.current_color
         g == [f EXCEPT !.todo = rest(@, move)]
         root == Len(stack) = 1
     IN IF is_legal(board_copy, move, color)
        THEN LET played == play_move(board_copy, move, color)
             IN SearchStep(Append(SetTop([g EXCEPT !.move = move]),
                                  NewFrame(played, f.bbl, f.wbl)),
                           played, tt, stored_for, ret, retFrame, "run",
                           bbl_default, wbl_default, response)
        ELSE IF ~negamax_catches("ValueError")
        THEN EndStep("crashed", Respond("ValueError", 0, 0), live, alarm)
        ELSE SearchStep(
               SetTop([g EXCEPT !.rejected = @ \cup {move},
                                !.bbl = IF color = BLACK THEN @ \cup {move} ELSE @,
                                !.wbl = IF color = WHITE THEN @ \cup {move} ELSE @]),
               board_copy, tt, stored_for, ret, retFrame, "run",
               IF root /\ color = BLACK THEN bbl_default \cup {move} ELSE bbl_default,
               IF root /\ color = WHITE THEN wbl_default \cup {move} ELSE wbl_default,
               response)

\* The recursive call is back: isWin = not negamax(...)[0].  Subscripting
\* None raises TypeError, which no handler of negamax or solve catches: the
\* command ends with the error.  Otherwise the move is undone and, when it
\* wins, stored and returned.
ChildReturn ==
  /\ pc = "ret"
  /\ stack # <<>>
  /\ LET f == Top
     IN IF ret = None
        THEN SearchStep(<<>>, board_copy, tt, stored_for, ret, retFrame, "crashed",
                        bbl_default, wbl_default, Respond("TypeError", 0, 0))
        ELSE LET isWin == ~ret[1]
                 undone == undo_move(board_copy, f.move, f.current_color)
             IN IF isWin
                THEN ReturnStore(<<TRUE, f.move>>, f, "win", undone)
                ELSE SearchStep(SetTop([f EXCEPT !.move = 0]), undone, tt,
                                stored_for, ret, retFrame, "run",
                                bbl_default, wbl_default, response)

\* No candidate won: return tt.store(state_code, (False, 0)).
Exhausted ==
  /\ pc = "run"
  /\ Top.phase = "loop"
  /\ Top.todo = {}
  /\ ReturnStore(<<FALSE, 0>>, Top, "exhausted", board_copy)

\* solve, after negamax returned: win, move = solution (unpacking None
\* raises TypeError, uncaught); the winner is the mover on a win, else the
\* opponent; the move is printed unless it is 0.
SolveFinish ==
  /\ pc = "ret"
  /\ stack = <<>>
  /\ request.cmd = "solve"
  /\ IF ret = None
     THEN EndStep("crashed", Respond("TypeError", 0, 0), live, "off")
     ELSE LET win == ret[1]
              move == ret[2]
              color == IF win THEN before.player ELSE opponent(before.player)
          IN EndStep("done", Respond("winner", color, move), live, "off")

\* genmove_cmd, after negamax returned: win, move = solution; a win plays
\* the move for the requested colour and answers it, anything else falls
\* back to genmove_random.
GenmoveFinish ==
  /\ pc = "ret"
  /\ stack = <<>>
  /\ request.cmd = "genmove"
  /\ IF ret = None
     THEN EndStep("crashed", Respond("TypeError", 0, 0), live, "off")
     ELSE IF ~ret[1]
          THEN genmove_random("off")
          ELSE IF is_legal(live, ret[2], request.color)
               THEN EndStep("done", Respond("move", 0, ret[2]),
                            play_move(live, ret[2], request.color), "off")
               ELSE EndStep("crashed", Respond("ValueError", 0, 0), live, "off")

\* The alarm fires while negamax runs: timeout_handler raises TimeoutError,
\* every active call is abandoned where it stands; solve answers unknown,
\* genmove_cmd falls back to genmove_random.
Timeout ==
  /\ pc \in {"run", "ret"}
  /\ alarm = "armed"
  /\ IF ~solve_catches("TimeoutError")
     THEN EndStep("crashed", Respond("TimeoutError", 0, 0), live, "fired")
     ELSE IF request.cmd = "solve"
          THEN EndStep("done", Respond("unknown", 0, 0), live, "fired")
          ELSE genmove_random("fired")

Next ==
  \/ \E p \in Points, c \in {BLACK, WHITE} : PlayCmd(p, c)
  \/ ClearBoard
  \/ SolveStart
  \/ \E c \in {BLACK, WHITE} : GenmoveStart(c)
  \/ NegamaxEnter
  \/ ProbePlay
  \/ ProbeUndo
  \/ \E m \in Points : TryCandidate(m)
  \/ ChildReturn
  \/ Exhausted
  \/ SolveFinish
  \/ GenmoveFinish
  \/ Timeout

Spec == Init /\ [][Next]_vars

\* The steps of a request once it is started, the alarm's excepted.
SearchNext ==
  \/ NegamaxEnter
  \/ ProbePlay
  \/ ProbeUndo
  \/ \E m \in Points : TryCandidate(m)
  \/ ChildReturn
  \/ Exhausted
  \/ SolveFinish
  \/ GenmoveFinish

\* Requests whose alarm never fires.  A handler runs on without waiting
\* for anything: a step that can be taken is taken.
UntimedNext ==
  \/ \E p \in Points, c \in {BLACK, WHITE} : PlayCmd(p, c)
  \/ ClearBoard
  \/ SolveStart
  \/ \E c \in {BLACK, WHITE} : GenmoveStart(c)
  \/ SearchNext

UntimedSpec == Init /\ [][UntimedNext]_vars /\ WF_vars(SearchNext)

\* negamax called in either mode: the requests of Next, and solve requests
\* whose top-level call has HeuristicMode off.
ModeNext == Next \/ SolvePlain

ModeSpec == Init /\ [][ModeNext]_vars

TypeOK ==
  /\ live \in Boards
  /\ board_copy \in Boards
  /\ pc \in {"idle", "run", "ret", "done", "crashed"}
  /\ ret \in Entries \cup {None}
  /\ bbl_default \subseteq Points
  /\ wbl_default \subseteq Points
  /\ requests \in 0..MaxRequests
  /\ request.cmd \in {"none", "solve", "genmove"}
  /\ request.color \in {BLACK, WHITE}
  /\ alarm \in {"off", "armed", "fired"}

\* ------------------------------------------- the table, operated directly

\* Largest fingerprint used when the table is driven on its own.
MaxCode == 2

TableCodes == 0..MaxCode

\* One table lifetime under arbitrary calls of store and lookup; ret holds
\* what the last call returned.
TableStore(c, data) ==
  /\ tt' = store(tt, c, data).table
  /\ ret' = store(tt, c, data).result
  /\ UNCHANGED <<live, board_copy, zobrist, bbl_default, wbl_default, stack, pc,
                 retFrame, response, requests, before, stored_for, solved,
                 request, alarm>>

TableLookup(c) ==
  /\ ret' = lookup(tt, c)
  /\ UNCHANGED <<live, board_copy, tt, zobrist, bbl_default, wbl_default, stack,
                 pc, retFrame, response, requests, before, stored_for, solved,
                 request, alarm>>

TableNext ==
  \/ \E c \in TableCodes, data \in Entries : TableStore(c, data)
  \/ \E c \in TableCodes : TableLookup(c)

TableSpec == Init /\ [][TableNext]_vars

\* ------------------------------------------------------------- properties

\* A solve ran to its end without the alarm firing.
SolveEnded ==
  /\ request.cmd = "solve"
  /\ pc \in {"done", "crashed"}
  /\ response.kind # "unknown"

\* negamax reported a win to solve.
ReportedWin == ret # None /\ ret[1]

\* C1: a top-level negamax call on a fresh table returns (True, m) exactly
\* when the player to move has a forced win by the reference minimax, and
\* (False, no move) otherwise.
C1_NegamaxDecidesForcedWin ==
  (pc = "ret" /\ stack = <<>>) =>
     IF ForcedWin(before)
     THEN ret \in { <<TRUE, m>> : m \in Points }
     ELSE ret = <<FALSE, 0>>

\* C2: on every normal return of negamax, at every depth, the stones and
\* the player to move of the search board are those the call was entered
\* with, rejected candidates and heuristic probes included.
C2_BoardRestoredOnReturn ==
  pc = "ret" => board_copy = retFrame.entry

\* C2, its case: a call below the root returns after it probed its
\* candidates and had a play attempt rejected as illegal.
C2_Witness ==
  /\ pc = "ret"
  /\ stack # <<>>
  /\ retFrame.probed # {}
  /\ retFrame.rejected # {}
  /\ retFrame.entry # before

\* C4: a position in which the player to move has no legal move solves to
\* the opponent as winner, with no move.
C4_NoLegalMoveLoses ==
  (SolveEnded /\ legal_moves(before, before.player) = {}) =>
     response = Respond("winner", opponent(before.player), 0)

\* C5: solve names the mover as winner, with the move, exactly when negamax
\* reported a win; otherwise it names the opponent and gives no move.
C5_ResponseFollowsNegamax ==
  SolveEnded =>
     IF ReportedWin
     THEN response = Respond("winner", before.player, ret[2]) /\ ret[2] # 0
     ELSE response = Respond("winner", opponent(before.player), 0)

\* C6: store returns the entry it stored, so a negamax call that ends with
\* return tt.store(...) hands its caller the pair that lookup(code) gives.
C6_StoreReturnsEntry ==
  (pc = "ret" /\ retFrame.via \in {"empty", "win", "exhausted"}) =>
     /\ ret \in Entries
     /\ ret = lookup(tt, retFrame.state_code)

\* C7: entries are write-once: whatever store and lookup calls follow, the
\* entry a code holds is the one lookup keeps returning.
C7_WriteOnce ==
  [][\A c \in DOMAIN tt : lookup(tt', c) = tt[c]]_vars

\* C8: every entry of the table is the exact result of the position it was
\* stored for: isWin holds iff the player to move there has a forced win.
C8_EntriesExact ==
  \A c \in DOMAIN tt : tt[c][1] = ForcedWin(stored_for[c])

\* Two positions with the same player to move, one a dihedral transform of
\* the other.
Symmetric(b1, b2) ==
  /\ b1.player = b2.player
  /\ \E k \in 1..8 : get_twoD_board(b2) = transform(k, get_twoD_board(b1))

\* C9: solving a position and solving any of its 8 dihedral transforms
\* (the identity among them) report the same win/loss verdict.
C9_SymmetricVerdicts ==
  \A r1 \in solved : \A r2 \in solved :
     Symmetric(r1.position, r2.position) =>
        /\ r1.outcome.kind = "winner"
        /\ r2.outcome.kind = "winner"
        /\ (r1.outcome.winner = r1.position.player)
             = (r2.outcome.winner = r2.position.player)

\* C10: while a solve request runs and after it ended, by an answer, by the
\* alarm or by an error, the connection's board holds the stones and the
\* player to move it held before the request.
C10_LiveBoardUntouched ==
  (request.cmd = "solve" /\ pc \in {"run", "ret", "done", "crashed"}) =>
     live = before

\* C10, its case: the alarm fired while the search board was some plies
\* away from the connection's board.
C10_Witness ==
  /\ request.cmd = "solve"
  /\ pc = "done"
  /\ response.kind = "unknown"
  /\ board_copy # live
  /\ live = before

\* The stones and the player to move of board, after color played on point.
Placed(board, point, color) == fast_play_move(board, point, color)

\* C11: when the alarm fires between its arming and its cancelling, solve
\* answers exactly unknown and genmove answers and plays a legal move of
\* the requested colour; the TimeoutError never ends the program.
C11_TimeoutHandled ==
  alarm = "fired" =>
     /\ pc = "done"
     /\ request.cmd = "solve" => response = Respond("unknown", 0, 0)
     /\ request.cmd = "genmove" =>
          /\ response.kind = "move"
          /\ response.move \in legal_moves(before, request.color)
          /\ live = Placed(before, response.move, request.color)

\* C11, its case: the alarm fired in a genmove whose search was some plies
\* deep, and the fallback move was played.
C11_Witness ==
  /\ alarm = "fired"
  /\ request.cmd = "genmove"
  /\ response.kind = "move"
  /\ Cardinality(get_empty_points(board_copy)) + 2
        <= Cardinality(get_empty_points(before))

\* C12: every top-level search, of solve and of genmove, starts with an
\* empty table and empty blacklists for both colours, whatever ran before.
C12_SearchStartsClean ==
  (pc = "run" /\ Len(stack) = 1 /\ Top.phase = "enter") =>
     /\ tt = <<>>
     /\ Top.bbl = {}
     /\ Top.wbl = {}

\* A genmove request has ended, by an answer or by an error.
GenmoveEnded == request.cmd = "genmove" /\ pc \in {"done", "crashed"}

\* C13: genmove answers resign exactly when the requested colour has no
\* legal move on the connection's board; then no search was started and
\* the board is as it was.
C13_ResignIffNoMove ==
  GenmoveEnded =>
     /\ response.kind = "resign" <=> legal_moves(before, request.color) = {}
     /\ response.kind = "resign" =>
          /\ ~request.searched
          /\ alarm = "off"
          /\ live = before

\* C13, its case: genmove resigned on a board that still has empty points.
C13_Witness ==
  /\ GenmoveEnded
  /\ response.kind = "resign"
  /\ get_empty_points(before) # {}

\* C14: a genmove for a colour that has a legal move answers one point that
\* was legal for that colour, the winning move when the search reported a
\* win, and leaves the board with exactly that one stone more.
C14_GenmovePlaysLegalMove ==
  (GenmoveEnded /\ legal_moves(before, request.color) # {}) =>
     /\ response.kind = "move"
     /\ response.move \in legal_moves(before, request.color)
     /\ ReportedWin => response.move = ret[2]
     /\ live = Placed(before, response.move, request.color)

\* C15: negamax gives a position the same win/loss verdict with
\* HeuristicMode on and off and whatever the order of its candidates: all
\* requests that solved one position got a verdict, and the same one.
C15_SameVerdictEitherMode ==
  \A r1 \in solved : \A r2 \in solved :
     r1.position = r2.position =>
        /\ r1.outcome.kind = "winner"
        /\ r2.outcome.kind = "winner"
        /\ r1.outcome.winner = r2.outcome.winner

\* The blacklist a call holds for its own mover.
Blacklist(f) == IF f.current_color = BLACK THEN f.bbl ELSE f.wbl

\* C16: when the play of a candidate is rejected (ValueError), the node
\* that tried it goes on with its loop: the point is on its blacklist for
\* the mover, the other candidates are still to be tried, no other node
\* and no stone changed, the error went no further; and no node has a
\* rejected point among the candidates it will still try.
C16_IllegalPlayCaught ==
  [][/\ \A m \in Points :
          (/\ pc = "run"
           /\ stack # <<>>
           /\ Top.phase = "loop"
           /\ m \in Top.todo
           /\ ~is_legal(board_copy, m, Top.current_color)
           /\ alarm' # "fired"
           /\ \/ stack' = <<>>
              \/ Len(stack') = Len(stack) /\ m \notin stack'[Len(stack)].todo)
          => /\ pc' = "run"
             /\ Len(stack') = Len(stack)
             /\ m \in Blacklist(stack'[Len(stack)])
             /\ stack'[Len(stack)].todo = Top.todo \ {m}
             /\ stack'[Len(stack)].rejected = Top.rejected \cup {m}
             /\ \A i \in 1..(Len(stack) - 1) : stack'[i] = stack[i]
             /\ board_copy' = board_copy
     /\ \A i \in 1..Len(stack') : stack'[i].rejected \cap stack'[i].todo = {}
    ]_vars

\* C16, its case: a call had a play rejected, went on with its loop and
\* had the next candidate rejected too.
C16_Witness ==
  \E i \in 1..Len(stack) :
     /\ Cardinality(stack[i].rejected) >= 2
     /\ stack[i].rejected \subseteq Blacklist(stack[i])

\* The same stones with the other player to move.
OtherTurn(board) == [board EXCEPT !.player = opponent(board.player)]

FoundOnPath(i, color) ==
  UNION { stack[j].rejected : j \in { k \in 1..i : stack[k].current_color = color } }

\* C18: blacklists are local to a branch: what a call holds on its
\* blacklist for a colour was found illegal for that colour at that call or
\* at one of its ancestors on the current path, never in another subtree.
C18_BlacklistBranchLocal ==
  \A i \in 1..Len(stack) :
     /\ stack[i].bbl \subseteq FoundOnPath(i, BLACK)
     /\ stack[i].wbl \subseteq FoundOnPath(i, WHITE)

\* The number of stones on a board.
Stones(board) == Cardinality({ p \in Points : board.stones[p] # EMPTY })

\* The recursion depth of the call that is running or returning: 0 for the
\* top-level call.
Depth == IF pc = "ret" THEN Len(stack) ELSE Len(stack) - 1

\* 1 while a heuristic probe is on the board.
ProbeOnBoard == IF pc = "run" /\ Top.probing # 0 THEN 1 ELSE 0

\* C19: while a search runs, the search board holds the root's stones,
\* one more per level of recursion and one more during a heuristic probe;
\* and a step that takes a stone off the search board undoes the play or
\* probe that the same call has pending, nothing else.
C19_UndoMatchesPlay ==
  [][/\ pc \in {"run", "ret"} =>
          Stones(board_copy) = Stones(before) + Depth + ProbeOnBoard
     /\ (/\ pc \in {"run", "ret"}
         /\ pc' \in {"run", "ret"}
         /\ stack # <<>>
         /\ Stones(board_copy') < Stones(board_copy))
        => LET m == IF pc = "run" THEN Top.probing ELSE Top.move
           IN /\ m # 0
              /\ board_copy.stones[m] = Top.current_color
              /\ board_copy' = undo_move(board_copy, m, Top.current_color)
              /\ Stones(board_copy') + 1 = Stones(board_copy)
    ]_vars

\* C19, its case: two plies below the root a probe is on the board, after
\* another probe of the same call was undone.
C19_Witness ==
  /\ pc = "run"
  /\ Len(stack) >= 3
  /\ Top.probing # 0
  /\ Top.probed # {}
  /\ Stones(board_copy) = Stones(before) + 3

\* C20: when the alarm does not fire, every top-level negamax call ends,
\* by a return or by an exception, and while it runs its recursion depth
\* is at most the number of empty points of the position it was called on.
C20_SearchEndsWithinDepth ==
  /\ [](pc \in {"run", "ret"} =>
          Depth <= Cardinality(get_empty_points(before)))
  /\ (stack # <<>>) ~> (stack = <<>>)

\* C20, its case: a search that went two plies deep has ended.
C20_Witness ==
  /\ pc = "crashed"
  /\ stack = <<>>
  /\ Stones(board_copy) >= Stones(before) + 2

\* The nodes of the running search: the positions its calls were entered
\* with and the colour each call searches for; the call that is returning
\* and the positions the table's entries were stored for are among them.
SearchNodes ==
  { [position |-> stack[i].entry, mover |-> stack[i].current_color] :
      i \in 1..Len(stack) }
  \cup (IF pc = "ret"
        THEN {[position |-> retFrame.entry, mover |-> retFrame.current_color]}
        ELSE {})
  \cup { [position |-> stored_for[c], mover |-> stored_for[c].player] :
           c \in DOMAIN stored_for }

\* One placement is a dihedral transform of the other (the identity among
\* the transforms).
SamePlacement(b1, b2) ==
  \E k \in 1..8 : get_twoD_board(b2) = transform(k, get_twoD_board(b1))

\* C21: within one search, nodes with the same stones, or with stones that
\* are dihedral images of each other, have the same player to move; for
\* every node the mover is the root's exactly when an even number of
\* stones was added to the root's.
C21_PlacementFixesMover ==
  pc \in {"run", "ret"} =>
     \A n1 \in SearchNodes :
        /\ \A n2 \in SearchNodes :
              SamePlacement(n1.position, n2.position) => n1.mover = n2.mover
        /\ (n1.mover = before.player)
             <=> ((Stones(n1.position) - Stones(before)) % 2 = 0)
        /\ n1.mover = n1.position.player

\* C21, its case: a call two plies below the root returns after storing
\* its entry; its ancestors, with fewer stones, are nodes of the search.
C21_Witness ==
  /\ pc = "ret"
  /\ Len(stack) >= 2
  /\ DOMAIN stored_for # {}
  /\ Cardinality(SearchNodes) >= 3
  /\ retFrame.current_color = before.player

\* C22: the blacklists a call holds are sound: a point on the list of a
\* colour is illegal for that colour on the position the call was entered
\* with and on the search board as it is now, so taking the blacklisted
\* points out of the candidates takes out no legal move.
C22_BlacklistSound ==
  pc \in {"run", "ret"} =>
     \A i \in 1..Len(stack) :
        LET f == stack[i]
        IN /\ \A p \in f.bbl : /\ ~is_legal(f.entry, p, BLACK)
                                /\ ~is_legal(board_copy, p, BLACK)
           /\ \A p \in f.wbl : /\ ~is_legal(f.entry, p, WHITE)
                                /\ ~is_legal(board_copy, p, WHITE)
           /\ legal_moves(f.entry, current_player(f.entry))
                \subseteq candidates(f.entry, current_player(f.entry), f.bbl, f.wbl)

\* C23: a top-level negamax call on a fresh table does not return through
\* a table hit or a symmetric hit, and a winning move it returns is a point
\* the root's mover could play on the root position.
C23_RootReturnsOwnMove ==
  (pc = "ret" /\ stack = <<>>) =>
     /\ retFrame.via \in {"empty", "win", "exhausted"}
     /\ retFrame.entry = before
     /\ ReportedWin =>
          /\ retFrame.via = "win"
          /\ ret[2] \in legal_moves(before, before.player)

\* C23, its case: the top-level call returns after it went through its
\* candidates, on a table that holds the entry it stored.
C23_Witness ==
  /\ pc = "ret"
  /\ stack = <<>>
  /\ retFrame.via = "exhausted"
  /\ retFrame.rejected # {}
  /\ DOMAIN tt # {}

====
